---- MODULE Spec2Model ----
(***************************************************************************)
(* State-machine model of the resumable OCR batch pipeline of              *)
(* src/pdf_ocr_gemini.py: main(), process_pdf(), ocr_with_gemini(),        *)
(* load_progress(), save_progress() and signal_handler(), together with    *)
(* the two files they own: the progress snapshot (PROGRESS_FILE) and the   *)
(* per-document output artifact.  A process can be started, run to its     *)
(* end, be interrupted by SIGINT, or be killed, and then be started again. *)
(* The second program, src/pdf_compressor.py, is modelled by the steps of  *)
(* process_pdf_file() on one PDF, its backup folder and its temp file.     *)
(***************************************************************************)
EXTENDS Integers, Sequences, FiniteSets, TLC

\* ---------------------------------------------------------------- bounds
NumDocs == 2
MaxPages == 2
MaxRuns == 2
MaxFaults == 1
MaxCalls == 2
MaxStamps == 2

\* ------------------------------------------------------ program constants
MAX_RETRIES == 10
MAX_SIZE_BYTES == 5242880
TARGET_SIZE_BYTES == 5033164

Docs == 1..NumDocs

\* ------------------------------------------------------- progress records
\* A document without an entry in progress_data.
NoRec == [present |-> FALSE, total_pages |-> 0, processed_pages |-> 0, completed |-> FALSE]

\* The entry process_pdf creates on first encounter of a document.
NewRec == [present |-> TRUE, total_pages |-> 0, processed_pages |-> 0, completed |-> FALSE]

EmptyProgress == [d \in Docs |-> NoRec]

\* PROGRESS_FILE: absent, a complete JSON snapshot, or truncated / partly written.
NoFile == [st |-> "none", data |-> EmptyProgress]

TornFile == [st |-> "torn", data |-> EmptyProgress]

CompleteFile(pd) == [st |-> "ok", data |-> pd]

\* Mutant: load_progress never finds the file.
load_progress_nothing(file) == EmptyProgress

\* load_progress: the snapshot when the file exists and parses, {} otherwise.
load_progress(file) == IF file.st = "ok" THEN file.data ELSE EmptyProgress

\* --------------------------------------------------------------- artifact
Header == [page |-> 0, text |-> <<"=== OCR Results ===">>, whole |-> TRUE]

Placeholder == <<"[OCR failed or no text detected]">>

\* The page marker alone: a section whose text and separator are not written yet.
MarkerOnly(p) == [page |-> p, text |-> <<>>, whole |-> FALSE]

WholeSection(p, t) == [page |-> p, text |-> t, whole |-> TRUE]

\* Mutant: the returned text is written whatever it is.
SectionTextNoPlaceholder(res) == res.ocr_text

\* What process_pdf writes for a page once the marker is out.
SectionText(res) == IF res.success /\ res.ocr_text # <<>> THEN res.ocr_text ELSE Placeholder

\* A buffered tail that reached the file without its last bytes.
Partial(b) == [i \in 1..Len(b) |-> IF b[i].page > 0 THEN [b[i] EXCEPT !.whole = FALSE] ELSE b[i]]

\* ------------------------------------------------------------ OCR client
RECURSIVE StripL(_)
StripL(s) == IF s = <<>> THEN s ELSE IF Head(s) = " " THEN StripL(Tail(s)) ELSE s

RECURSIVE StripR(_)
StripR(s) == IF s = <<>> THEN s ELSE IF s[Len(s)] = " " THEN StripR(SubSeq(s, 1, Len(s) - 1)) ELSE s

\* str.strip()
Strip(s) == StripR(StripL(s))

\* Texts the service may answer with (response.text), as character sequences.
RawTexts == { <<>>, <<" ">>, <<"a">>, <<" ", "a", " ">> }

\* Error strings the service may raise, as the set of tokens they contain.
ErrorStrings ==
    { {"400", "INVALID_ARGUMENT", "API_KEY_INVALID"},
      {"400", "INVALID_ARGUMENT"},
      {"403", "PERMISSION_DENIED"},
      {"429", "RESOURCE_EXHAUSTED"},
      {"503", "UNAVAILABLE"},
      {"500", "INTERNAL"},
      {"404", "NOT_FOUND"} }

Responses ==
    [kind : {"text"}, text : RawTexts, err : {{}}]
        \cup [kind : {"error"}, text : {<<>>}, err : ErrorStrings]
        \cup [kind : {"encode_fail"}, text : {<<>>}, err : {{}}]

NoResult == [ocr_text |-> <<>>, success |-> FALSE, should_stop |-> FALSE]

Result(t, ok, stop) == [ocr_text |-> t, success |-> ok, should_stop |-> stop]

\* Mutant: a 503/500 is retried whatever retry_count is.
BranchRetryUnbounded(resp, rc) ==
    IF resp.kind = "encode_fail" THEN "encode_fail"
    ELSE IF resp.kind = "text" THEN (IF resp.text # <<>> THEN "text" ELSE "empty")
    ELSE IF "400" \in resp.err
            /\ ("INVALID_ARGUMENT" \in resp.err \/ "API_KEY_INVALID" \in resp.err)
         THEN "invalid_key"
    ELSE IF "429" \in resp.err \/ "RESOURCE_EXHAUSTED" \in resp.err THEN "rate_limit"
    ELSE IF "503" \in resp.err \/ "UNAVAILABLE" \in resp.err THEN "retry"
    ELSE IF "500" \in resp.err \/ "INTERNAL" \in resp.err THEN "retry"
    ELSE "other_error"

\* The branch of ocr_with_gemini a response takes at the given retry_count.
Branch(resp, rc) ==
    IF resp.kind = "encode_fail" THEN "encode_fail"
    ELSE IF resp.kind = "text" THEN (IF resp.text # <<>> THEN "text" ELSE "empty")
    ELSE IF "400" \in resp.err
            /\ ("INVALID_ARGUMENT" \in resp.err \/ "API_KEY_INVALID" \in resp.err)
         THEN "invalid_key"
    ELSE IF "429" \in resp.err \/ "RESOURCE_EXHAUSTED" \in resp.err THEN "rate_limit"
    ELSE IF "503" \in resp.err \/ "UNAVAILABLE" \in resp.err
         THEN (IF rc < MAX_RETRIES THEN "retry" ELSE "retries_exceeded")
    ELSE IF "500" \in resp.err \/ "INTERNAL" \in resp.err
         THEN (IF rc < MAX_RETRIES THEN "retry" ELSE "retries_exceeded")
    ELSE "other_error"

\* The tuple (ocr_text, success, should_stop) a returning branch returns.
Returned(resp, b) ==
    IF b = "text" THEN Result(Strip(resp.text), TRUE, FALSE)
    ELSE IF b \in {"invalid_key", "rate_limit", "retries_exceeded"} THEN Result(<<>>, FALSE, TRUE)
    ELSE Result(<<>>, FALSE, FALSE)

\* ------------------------------------------------------------------ state
VARIABLES
    pages,          \* number of pages of each PDF in the folder
    disk,           \* PROGRESS_FILE
    art,            \* the output artifact of each document, as on disk
    pc,             \* where the process is ("off": no process)
    progress_data,  \* the global progress_data
    doc,            \* index of the PDF main's loop is at
    start_page,     \* process_pdf's start_page
    page_num,       \* process_pdf's page_num
    retry_count,    \* ocr_with_gemini's retry_count
    result,         \* (ocr_text, success, should_stop)
    buf,            \* written to output_file and not flushed yet
    save_ret,       \* where the running save_progress() returns to
    stopped,        \* main's loop was left by break
    run,            \* processes started so far
    loaded,         \* progress_data as load_progress left it in this run
    hadSection,     \* pages whose whole section each artifact held when this run started
    opened,         \* documents whose artifact was opened in this run
    ocrPages,       \* pages of each document sent to the service in this run
    firstReq,       \* the first page of each document sent in this run (0: none)
    requests,       \* generate_content calls made for the current page
    transients,     \* 503/500 answers received for the current page
    outcome,        \* the branch the last ocr_with_gemini call returned by
    raw,            \* response.text of the answer it returned on
    rasterized,     \* documents pdf_to_images was called on in this run
    wrote,          \* pages of each document a section was written for in this run
    lastSave,       \* how the last save_progress() of this run ended
    delays,         \* sleeps of DELAY_BETWEEN_REQUESTS since the last OCR call
    maxPersisted,   \* the largest processed_pages ever written in a complete snapshot
    faults,         \* I/O errors raised so far
    prev,           \* how the previous process ended
    step,           \* where process_pdf_file is ("idle": not called)
    pdf,            \* the file at pdf_path
    backups,        \* the files of BACKUP_FOLDER, by name
    temp,           \* the file at pdf_path + ".temp"
    backup_path,    \* process_pdf_file's backup_path
    temp_size,      \* compress_pdf_gentle's temp_size
    returned,       \* what the last process_pdf_file call returned
    original,       \* the file at pdf_path when process_pdf_file was called
    now,            \* the last timestamp used for a backup name
    calls           \* process_pdf_file calls so far

locals == <<doc, start_page, page_num, retry_count, result, save_ret, stopped>>

ghosts == <<loaded, hadSection, opened, ocrPages, firstReq, requests, transients,
            outcome, raw, rasterized, wrote, lastSave, delays>>

ocrVars == <<pages, disk, art, pc, progress_data, doc, start_page, page_num, retry_count,
             result, buf, save_ret, stopped, run, loaded, hadSection, opened, ocrPages,
             firstReq, requests, transients, outcome, raw, rasterized, wrote, lastSave,
             delays, maxPersisted, faults, prev>>

compressorVars == <<step, pdf, backups, temp, backup_path, temp_size, returned, original,
                    now, calls>>

vars == <<ocrVars, compressorVars>>

NoPrev == [kind |-> "none", doc |-> 0, page |-> 0, outcome |-> "none", saved |-> FALSE]

\* ------------------------------------------------------ compressor files
\* A file: whether it exists, which content it holds (0: an incomplete copy,
\* n > 0: the document after n - 1 compressions) and its size in bytes.
NoSuchFile == [exists |-> FALSE, data |-> 0, size |-> 0]

File(data, size) == [exists |-> TRUE, data |-> data, size |-> size]

\* What a copy or a save that raised midway leaves at its destination.
Incomplete == File(0, 0)

\* Sizes on each side of MAX_SIZE_BYTES and TARGET_SIZE_BYTES.
Sizes == {TARGET_SIZE_BYTES, MAX_SIZE_BYTES, MAX_SIZE_BYTES + 1}

\* Names in BACKUP_FOLDER: 0 is the PDF's own file name, ts > 0 the name with
\* the timestamp ts.
Stamps == 1..MaxStamps

BackupNames == {0} \cup Stamps

\* create_backup's None.
None == 0 - 1

\* The program's state before main() of pdf_ocr_gemini.py is first run.
OcrNotStarted ==
    /\ disk = NoFile
    /\ art = [d \in Docs |-> <<>>]
    /\ pc = "off"
    /\ progress_data = EmptyProgress
    /\ doc = 1
    /\ start_page = 0
    /\ page_num = 0
    /\ retry_count = 0
    /\ result = NoResult
    /\ buf = <<>>
    /\ save_ret = "none"
    /\ stopped = FALSE
    /\ run = 0
    /\ loaded = EmptyProgress
    /\ hadSection = [d \in Docs |-> {}]
    /\ opened = {}
    /\ ocrPages = [d \in Docs |-> {}]
    /\ firstReq = [d \in Docs |-> 0]
    /\ requests = 0
    /\ transients = 0
    /\ outcome = "none"
    /\ raw = <<>>
    /\ rasterized = {}
    /\ wrote = [d \in Docs |-> {}]
    /\ lastSave = "none"
    /\ delays = 0
    /\ maxPersisted = [d \in Docs |-> 0]
    /\ faults = 0
    /\ prev = NoPrev

\* The compressor's state when pdf_compressor.py is not run.
CompressorNotStarted ==
    /\ step = "idle"
    /\ pdf = File(1, MAX_SIZE_BYTES + 1)
    /\ backups = [n \in BackupNames |-> NoSuchFile]
    /\ temp = NoSuchFile
    /\ backup_path = None
    /\ temp_size = 0
    /\ returned = TRUE
    /\ original = pdf
    /\ now = 1
    /\ calls = 0

Init ==
    /\ pages \in [Docs -> 1..MaxPages]
    /\ OcrNotStarted
    /\ CompressorNotStarted

\* ------------------------------------------------------------- helpers
Max(a, b) == IF a >= b THEN a ELSE b

\* Mutant: every run starts a document at its first page.
StartPageFromZero(rec) == 0

\* The resume point process_pdf reads from the document's entry.
StartPage(rec) == rec.processed_pages

\* Mutant: the key is misspelt, so no document counts as completed.
AlreadyCompletedMisspelt(pd, d) == FALSE

\* Mutant: total_pages counts the pages still to be processed.
SetTotalPagesRemaining(pd, d) ==
    [pd EXCEPT ![d].total_pages = pages[d] - pd[d].processed_pages]

\* progress_data[pdf_filename]['total_pages'] = len(images)
SetTotalPages(pd, d) == [pd EXCEPT ![d].total_pages = pages[d]]

\* pdf_filename in progress_data and its entry's 'completed' is true.
AlreadyCompleted(pd, d) == pd[d].present /\ pd[d].completed

\* 'a' if resuming, 'w' if starting fresh.
OpenMode(sp) == IF sp > 0 THEN "a" ELSE "w"

\* Mutant: the page after the current one is recorded as processed.
AdvanceOneTooFar(pd, d, pn) == [pd EXCEPT ![d].processed_pages = pn + 2]

\* What the page loop leaves in progress_data once page page_num + 1 is flushed.
Advance(pd, d, pn) == [pd EXCEPT ![d].processed_pages = pn + 1]

\* The largest processed_pages a complete snapshot ever held, after writing pd.
Persisted(mp, pd) == [d \in Docs |-> Max(mp[d], pd[d].processed_pages)]

\* Mutant: the recursive call is made with the same retry_count.
NextRetrySame(rc) == rc

\* The retry_count of the recursive call after a 503/500.
NextRetry(rc) == rc + 1

\* Pages with a whole section in an artifact.
SectionPages(a) == {a[i].page : i \in {j \in 1..Len(a) : a[j].page > 0 /\ a[j].whole}}

\* The process stands between the save of a page and the OCR call of the next.
BetweenPages ==
    \/ pc = "delay"
    \/ pc = "page" /\ page_num > start_page
    \/ pc = "ocr" /\ requests = 0 /\ retry_count = 0 /\ page_num > start_page

\* How a process ended, as far as the next one is concerned.
EndRecord(kind) ==
    IF kind = "halt"
    THEN [kind |-> "halt", doc |-> doc, page |-> page_num + 1, outcome |-> outcome,
          saved |-> (lastSave = "ok")]
    ELSE IF kind = "crash" /\ BetweenPages /\ lastSave = "ok"
    THEN [kind |-> "crash_between", doc |-> doc,
          page |-> progress_data[doc].processed_pages, outcome |-> "none", saved |-> TRUE]
    ELSE [kind |-> kind, doc |-> 0, page |-> 0, outcome |-> "none", saved |-> FALSE]

\* The process is gone: its memory with it.
ProcessGone ==
    /\ pc' = "off"
    /\ progress_data' = EmptyProgress
    /\ doc' = 1
    /\ start_page' = 0
    /\ page_num' = 0
    /\ retry_count' = 0
    /\ result' = NoResult
    /\ buf' = <<>>
    /\ save_ret' = "none"
    /\ stopped' = FALSE
    /\ loaded' = EmptyProgress
    /\ hadSection' = [d \in Docs |-> {}]
    /\ opened' = {}
    /\ ocrPages' = [d \in Docs |-> {}]
    /\ firstReq' = [d \in Docs |-> 0]
    /\ requests' = 0
    /\ transients' = 0
    /\ outcome' = "none"
    /\ raw' = <<>>
    /\ rasterized' = {}
    /\ wrote' = [d \in Docs |-> {}]
    /\ lastSave' = "none"
    /\ delays' = 0

\* What main reports about the run once process_pdf has returned: after a
\* False it prints "You can resume processing tomorrow by running this script
\* again", whatever made ocr_with_gemini ask for the stop.
HaltReport(should_continue) == IF should_continue THEN "none" ELSE "resumable"

\* ------------------------------------------------------------------ main
\* main() up to the loop over the PDFs: install the handler, load_progress().
Main ==
    /\ pc = "off"
    /\ run < MaxRuns
    /\ run' = run + 1
    /\ progress_data' = load_progress(disk)
    /\ loaded' = load_progress(disk)
    /\ hadSection' = [d \in Docs |-> SectionPages(art[d])]
    /\ pc' = "loop"
    /\ doc' = 1
    /\ UNCHANGED <<pages, disk, art, start_page, page_num, retry_count, result, buf,
                   save_ret, stopped, opened, ocrPages, firstReq, requests, transients,
                   outcome, raw, rasterized, wrote, lastSave, delays, maxPersisted,
                   faults, prev, compressorVars>>

\* The loop over the PDFs is exhausted.
LoopEnd ==
    /\ pc = "loop"
    /\ doc > NumDocs
    /\ pc' = "summary"
    /\ UNCHANGED <<pages, disk, art, progress_data, doc, start_page, page_num,
                   retry_count, result, buf, save_ret, stopped, run, loaded,
                   hadSection, opened, ocrPages, firstReq, requests, transients,
                   outcome, raw, rasterized, wrote, lastSave, delays, maxPersisted,
                   faults, prev, compressorVars>>

\* Mutant: main ignores what process_pdf returned and takes the next PDF.
BreakIgnored ==
    /\ pc = "halted"
    /\ doc' = doc + 1
    /\ pc' = "loop"
    /\ UNCHANGED <<pages, disk, art, progress_data, start_page, page_num, retry_count,
                   result, buf, save_ret, stopped, run, loaded, hadSection, opened,
                   ocrPages, firstReq, requests, transients, outcome, raw, rasterized,
                   wrote, lastSave, delays, maxPersisted, faults, prev, compressorVars>>

\* break after process_pdf returned False.
Break ==
    /\ pc = "halted"
    /\ stopped' = TRUE
    /\ pc' = "summary"
    /\ UNCHANGED <<pages, disk, art, progress_data, doc, start_page, page_num,
                   retry_count, result, buf, save_ret, run, loaded, hadSection, opened,
                   ocrPages, firstReq, requests, transients, outcome, raw, rasterized,
                   wrote, lastSave, delays, maxPersisted, faults, prev, compressorVars>>

\* print_summary() and the end of main(): the process exits.
Exit ==
    /\ pc = "summary"
    /\ prev' = EndRecord(IF stopped THEN "halt" ELSE "done")
    /\ ProcessGone
    /\ UNCHANGED <<pages, disk, art, run, maxPersisted, faults, compressorVars>>

\* ----------------------------------------------------------- process_pdf
\* The PDF is already marked completed: skip it.
SkipCompleted ==
    /\ pc = "loop"
    /\ doc \in Docs
    /\ AlreadyCompleted(progress_data, doc)
    /\ doc' = doc + 1
    /\ UNCHANGED <<pages, disk, art, pc, progress_data, start_page, page_num,
                   retry_count, result, buf, save_ret, stopped, run, loaded,
                   hadSection, opened, ocrPages, firstReq, requests, transients,
                   outcome, raw, rasterized, wrote, lastSave, delays, maxPersisted,
                   faults, prev, compressorVars>>

\* Initialize progress for this PDF if needed.
InitProgress ==
    /\ pc = "loop"
    /\ doc \in Docs
    /\ ~AlreadyCompleted(progress_data, doc)
    /\ progress_data' = IF progress_data[doc].present THEN progress_data
                        ELSE [progress_data EXCEPT ![doc] = NewRec]
    /\ pc' = "rasterize"
    /\ UNCHANGED <<pages, disk, art, doc, start_page, page_num, retry_count, result,
                   buf, save_ret, stopped, run, loaded, hadSection, opened, ocrPages,
                   firstReq, requests, transients, outcome, raw, rasterized, wrote,
                   lastSave, delays, maxPersisted, faults, prev, compressorVars>>

\* Mutant: a document that cannot be rasterized stops the batch.
RasterizeFailStops ==
    /\ pc = "rasterize"
    /\ faults < MaxFaults
    /\ faults' = faults + 1
    /\ rasterized' = rasterized \cup {doc}
    /\ pc' = "halted"
    /\ UNCHANGED <<pages, disk, art, progress_data, doc, start_page, page_num,
                   retry_count, result, buf, save_ret, stopped, run, loaded,
                   hadSection, opened, ocrPages, firstReq, requests, transients,
                   outcome, raw, wrote, lastSave, delays, maxPersisted, prev,
                   compressorVars>>

\* pdf_to_images returned []: the document is skipped.
RasterizeFail ==
    /\ pc = "rasterize"
    /\ faults < MaxFaults
    /\ faults' = faults + 1
    /\ rasterized' = rasterized \cup {doc}
    /\ doc' = doc + 1
    /\ pc' = "loop"
    /\ UNCHANGED <<pages, disk, art, progress_data, start_page, page_num, retry_count,
                   result, buf, save_ret, stopped, run, loaded, hadSection, opened,
                   ocrPages, firstReq, requests, transients, outcome, raw, wrote,
                   lastSave, delays, maxPersisted, prev, compressorVars>>

\* pdf_to_images returned the images: total_pages and start_page are set.
RasterizeOk ==
    /\ pc = "rasterize"
    /\ rasterized' = rasterized \cup {doc}
    /\ progress_data' = SetTotalPages(progress_data, doc)
    /\ start_page' = StartPage(progress_data[doc])
    /\ pc' = "open"
    /\ UNCHANGED <<pages, disk, art, doc, page_num, retry_count, result, buf, save_ret,
                   stopped, run, loaded, hadSection, opened, ocrPages, firstReq,
                   requests, transients, outcome, raw, wrote, lastSave, delays,
                   maxPersisted, faults, prev, compressorVars>>

\* open(output_path, mode): 'w' truncates the artifact, 'a' keeps it.
OpenOutput ==
    /\ pc = "open"
    /\ art' = IF OpenMode(start_page) = "w" THEN [art EXCEPT ![doc] = <<>>] ELSE art
    /\ opened' = opened \cup {doc}
    /\ page_num' = start_page
    /\ pc' = "page"
    /\ UNCHANGED <<pages, disk, progress_data, doc, start_page, retry_count, result,
                   buf, save_ret, stopped, run, loaded, hadSection, ocrPages, firstReq,
                   requests, transients, outcome, raw, rasterized, wrote, lastSave,
                   delays, maxPersisted, faults, prev, compressorVars>>

\* open() raised: except Exception saves the progress and returns True.
OpenOutputFail ==
    /\ pc = "open"
    /\ faults < MaxFaults
    /\ faults' = faults + 1
    /\ save_ret' = "skip"
    /\ pc' = "save_open"
    /\ UNCHANGED <<pages, disk, art, progress_data, doc, start_page, page_num,
                   retry_count, result, buf, stopped, run, loaded, hadSection, opened,
                   ocrPages, firstReq, requests, transients, outcome, raw, rasterized,
                   wrote, lastSave, delays, maxPersisted, prev, compressorVars>>

\* Mutant: the loop stops one page short of total_pages.
PageLoopOneShort ==
    /\ pc = "page"
    /\ pc' = IF page_num < pages[doc] - 1 THEN "ocr" ELSE "close"
    /\ UNCHANGED <<pages, disk, art, progress_data, doc, start_page, page_num,
                   retry_count, result, buf, save_ret, stopped, run, loaded,
                   hadSection, opened, ocrPages, firstReq, requests, transients,
                   outcome, raw, rasterized, wrote, lastSave, delays, maxPersisted,
                   faults, prev, compressorVars>>

\* for page_num in range(start_page, total_pages)
PageLoop ==
    /\ pc = "page"
    /\ pc' = IF page_num < pages[doc] THEN "ocr" ELSE "close"
    /\ UNCHANGED <<pages, disk, art, progress_data, doc, start_page, page_num,
                   retry_count, result, buf, save_ret, stopped, run, loaded,
                   hadSection, opened, ocrPages, firstReq, requests, transients,
                   outcome, raw, rasterized, wrote, lastSave, delays, maxPersisted,
                   faults, prev, compressorVars>>

\* Mutant: ocr_with_gemini counts the page as processed when it returns.
OcrAttemptCountsPage ==
    /\ pc = "ocr"
    /\ \E resp \in Responses :
         LET b == Branch(resp, retry_count)
             sent == resp.kind # "encode_fail"
         IN  \* image_to_base64 depends on the image alone: it fails at once or never
             /\ ~sent => retry_count = 0
             /\ requests' = IF sent THEN requests + 1 ELSE requests
             /\ progress_data' = IF b = "retry" THEN progress_data
                                ELSE Advance(progress_data, doc, page_num)
             /\ delays' = 0
             /\ ocrPages' = [ocrPages EXCEPT ![doc] = @ \cup {page_num + 1}]
             /\ firstReq' = IF firstReq[doc] = 0
                            THEN [firstReq EXCEPT ![doc] = page_num + 1] ELSE firstReq
             /\ transients' = IF b \in {"retry", "retries_exceeded"}
                              THEN transients + 1 ELSE transients
             /\ IF b = "retry"
                THEN /\ retry_count' = NextRetry(retry_count)
                     /\ UNCHANGED <<pc, result, outcome, raw>>
                ELSE /\ result' = Returned(resp, b)
                     /\ outcome' = b
                     /\ raw' = resp.text
                     /\ pc' = "got"
                     /\ UNCHANGED retry_count
    /\ UNCHANGED <<pages, disk, art, doc, start_page, page_num, buf, save_ret, stopped,
                   run, loaded, hadSection, opened, rasterized, wrote, lastSave,
                   maxPersisted, faults, prev, compressorVars>>

\* One call of ocr_with_gemini's body: encode, send, classify the answer; a
\* 503/500 within the budget sleeps RETRY_DELAY and calls again.
OcrAttempt ==
    /\ pc = "ocr"
    /\ \E resp \in Responses :
         LET b == Branch(resp, retry_count)
             sent == resp.kind # "encode_fail"
         IN  \* image_to_base64 depends on the image alone: it fails at once or never
             /\ ~sent => retry_count = 0
             /\ requests' = IF sent THEN requests + 1 ELSE requests
             /\ delays' = 0
             /\ ocrPages' = [ocrPages EXCEPT ![doc] = @ \cup {page_num + 1}]
             /\ firstReq' = IF firstReq[doc] = 0
                            THEN [firstReq EXCEPT ![doc] = page_num + 1] ELSE firstReq
             /\ transients' = IF b \in {"retry", "retries_exceeded"}
                              THEN transients + 1 ELSE transients
             /\ IF b = "retry"
                THEN /\ retry_count' = NextRetry(retry_count)
                     /\ UNCHANGED <<pc, result, outcome, raw>>
                ELSE /\ result' = Returned(resp, b)
                     /\ outcome' = b
                     /\ raw' = resp.text
                     /\ pc' = "got"
                     /\ UNCHANGED retry_count
    /\ UNCHANGED <<pages, disk, art, progress_data, doc, start_page, page_num, buf,
                   save_ret, stopped, run, loaded, hadSection, opened, rasterized,
                   wrote, lastSave, maxPersisted, faults, prev, compressorVars>>

\* if should_stop: save_progress(); return False
StopSave ==
    /\ pc = "got"
    /\ result.should_stop
    /\ save_ret' = "halted"
    /\ retry_count' = 0
    /\ requests' = 0
    /\ transients' = 0
    /\ pc' = "save_open"
    /\ UNCHANGED <<pages, disk, art, progress_data, doc, start_page, page_num, result,
                   buf, stopped, run, loaded, hadSection, opened, ocrPages, firstReq,
                   outcome, raw, rasterized, wrote, lastSave, delays, maxPersisted,
                   faults, prev, compressorVars>>

\* The header on the first page of a new file, then the page marker.
WriteMarker ==
    /\ pc = "got"
    /\ ~result.should_stop
    /\ buf' = buf \o (IF page_num = 0 /\ start_page = 0 THEN <<Header>> ELSE <<>>)
                  \o <<MarkerOnly(page_num + 1)>>
    /\ wrote' = [wrote EXCEPT ![doc] = @ \cup {page_num + 1}]
    /\ retry_count' = 0
    /\ requests' = 0
    /\ transients' = 0
    /\ outcome' = "none"
    /\ raw' = <<>>
    /\ pc' = "body"
    /\ UNCHANGED <<pages, disk, art, progress_data, doc, start_page, page_num, result,
                   save_ret, stopped, run, loaded, hadSection, opened, ocrPages,
                   firstReq, rasterized, lastSave, delays, maxPersisted, faults, prev,
                   compressorVars>>

\* The text or the failure placeholder, then the separator.
WriteBody ==
    /\ pc = "body"
    /\ buf' = [buf EXCEPT ![Len(buf)] = WholeSection(page_num + 1, SectionText(result))]
    /\ result' = NoResult
    /\ pc' = "flush"
    /\ UNCHANGED <<pages, disk, art, progress_data, doc, start_page, page_num,
                   retry_count, save_ret, stopped, run, loaded, hadSection, opened,
                   ocrPages, firstReq, requests, transients, outcome, raw, rasterized,
                   wrote, lastSave, delays, maxPersisted, faults, prev, compressorVars>>

\* output_file.flush()
Flush ==
    /\ pc = "flush"
    /\ art' = [art EXCEPT ![doc] = @ \o buf]
    /\ buf' = <<>>
    /\ pc' = "update"
    /\ UNCHANGED <<pages, disk, progress_data, doc, start_page, page_num, retry_count,
                   result, save_ret, stopped, run, loaded, hadSection, opened,
                   ocrPages, firstReq, requests, transients, outcome, raw, rasterized,
                   wrote, lastSave, delays, maxPersisted, faults, prev, compressorVars>>

\* progress_data[pdf_filename]['processed_pages'] = current_page; save_progress()
UpdateProgress ==
    /\ pc = "update"
    /\ progress_data' = Advance(progress_data, doc, page_num)
    /\ save_ret' = "delay"
    /\ pc' = "save_open"
    /\ UNCHANGED <<pages, disk, art, doc, start_page, page_num, retry_count, result,
                   buf, stopped, run, loaded, hadSection, opened, ocrPages, firstReq,
                   requests, transients, outcome, raw, rasterized, wrote, lastSave,
                   delays, maxPersisted, faults, prev, compressorVars>>

\* Mutant: the delay is taken after the last page as well.
DelayTakenAlways(current_page, total_pages) == TRUE

\* if current_page < total_pages: time.sleep(DELAY_BETWEEN_REQUESTS)
DelayTaken(current_page, total_pages) == current_page < total_pages

\* The rate limiting delay (none after the last page), then the next page.
Delay ==
    /\ pc = "delay"
    /\ delays' = IF DelayTaken(page_num + 1, pages[doc]) THEN delays + 1 ELSE delays
    /\ page_num' = page_num + 1
    /\ save_ret' = "none"
    /\ pc' = "page"
    /\ UNCHANGED <<pages, disk, art, progress_data, doc, start_page, retry_count,
                   result, buf, stopped, run, loaded, hadSection, opened, ocrPages,
                   firstReq, requests, transients, outcome, raw, rasterized, wrote,
                   lastSave, maxPersisted, faults, prev, compressorVars>>

\* The with block ends: the artifact is closed.
Close ==
    /\ pc = "close"
    /\ art' = [art EXCEPT ![doc] = @ \o buf]
    /\ buf' = <<>>
    /\ pc' = "mark"
    /\ UNCHANGED <<pages, disk, progress_data, doc, start_page, page_num, retry_count,
                   result, save_ret, stopped, run, loaded, hadSection, opened,
                   ocrPages, firstReq, requests, transients, outcome, raw, rasterized,
                   wrote, lastSave, delays, maxPersisted, faults, prev, compressorVars>>

\* Mark as completed; save_progress()
MarkCompleted ==
    /\ pc = "mark"
    /\ progress_data' = [progress_data EXCEPT ![doc].completed = TRUE]
    /\ save_ret' = "next"
    /\ pc' = "save_open"
    /\ UNCHANGED <<pages, disk, art, doc, start_page, page_num, retry_count, result,
                   buf, stopped, run, loaded, hadSection, opened, ocrPages, firstReq,
                   requests, transients, outcome, raw, rasterized, wrote, lastSave,
                   delays, maxPersisted, faults, prev, compressorVars>>

\* return True: main goes on with the next PDF.
ReturnTrue ==
    /\ pc \in {"next", "skip"}
    /\ doc' = doc + 1
    /\ start_page' = 0
    /\ page_num' = 0
    /\ save_ret' = "none"
    /\ pc' = "loop"
    /\ UNCHANGED <<pages, disk, art, progress_data, retry_count, result, buf, stopped,
                   run, loaded, hadSection, opened, ocrPages, firstReq, requests,
                   transients, outcome, raw, rasterized, wrote, lastSave, delays,
                   maxPersisted, faults, prev, compressorVars>>

\* --------------------------------------------------------- save_progress
\* open(PROGRESS_FILE, 'w'): the file is truncated.
SaveOpen ==
    /\ pc = "save_open"
    /\ disk' = TornFile
    /\ pc' = "save_write"
    /\ UNCHANGED <<pages, art, progress_data, doc, start_page, page_num, retry_count,
                   result, buf, save_ret, stopped, run, loaded, hadSection, opened,
                   ocrPages, firstReq, requests, transients, outcome, raw, rasterized,
                   wrote, lastSave, delays, maxPersisted, faults, prev, compressorVars>>

\* Mutant: a save that cannot open the file stops the run.
SaveOpenErrorStops ==
    /\ pc = "save_open"
    /\ faults < MaxFaults
    /\ faults' = faults + 1
    /\ lastSave' = "fail"
    /\ pc' = "halted"
    /\ UNCHANGED <<pages, disk, art, progress_data, doc, start_page, page_num,
                   retry_count, result, buf, save_ret, stopped, run, loaded,
                   hadSection, opened, ocrPages, firstReq, requests, transients,
                   outcome, raw, rasterized, wrote, delays, maxPersisted, prev,
                   compressorVars>>

\* open() raised: the error is printed, the file is as it was.
SaveOpenError ==
    /\ pc = "save_open"
    /\ faults < MaxFaults
    /\ faults' = faults + 1
    /\ lastSave' = "fail"
    /\ pc' = save_ret
    /\ UNCHANGED <<pages, disk, art, progress_data, doc, start_page, page_num,
                   retry_count, result, buf, save_ret, stopped, run, loaded,
                   hadSection, opened, ocrPages, firstReq, requests, transients,
                   outcome, raw, rasterized, wrote, delays, maxPersisted, prev,
                   compressorVars>>

\* json.dump and close: the file holds the complete snapshot.
SaveWrite ==
    /\ pc = "save_write"
    /\ disk' = CompleteFile(progress_data)
    /\ maxPersisted' = Persisted(maxPersisted, progress_data)
    /\ lastSave' = "ok"
    /\ pc' = save_ret
    /\ UNCHANGED <<pages, art, progress_data, doc, start_page, page_num, retry_count,
                   result, buf, save_ret, stopped, run, loaded, hadSection, opened,
                   ocrPages, firstReq, requests, transients, outcome, raw, rasterized,
                   wrote, delays, faults, prev, compressorVars>>

\* json.dump raised: the error is printed, the file stays partly written.
SaveWriteError ==
    /\ pc = "save_write"
    /\ faults < MaxFaults
    /\ faults' = faults + 1
    /\ lastSave' = "fail"
    /\ pc' = save_ret
    /\ UNCHANGED <<pages, disk, art, progress_data, doc, start_page, page_num,
                   retry_count, result, buf, save_ret, stopped, run, loaded,
                   hadSection, opened, ocrPages, firstReq, requests, transients,
                   outcome, raw, rasterized, wrote, delays, maxPersisted, prev,
                   compressorVars>>

\* ------------------------------------------------------- interruptions
\* The snapshot file after signal_handler's save_progress() ended as h.
HandlerSave(h) ==
    IF h = "ok" THEN CompleteFile(progress_data)
    ELSE IF h = "write_error" THEN TornFile
    ELSE disk

\* SIGINT: signal_handler calls save_progress() and sys.exit(0); SystemExit
\* unwinds through the with blocks, which close (and so flush) the open files.
Sigint ==
    /\ pc # "off"
    /\ \E h \in {"ok", "open_error", "write_error"} :
         /\ h # "ok" => faults < MaxFaults
         /\ faults' = IF h = "ok" THEN faults ELSE faults + 1
         /\ disk' = HandlerSave(h)
         /\ maxPersisted' = IF h = "ok" THEN Persisted(maxPersisted, progress_data)
                            ELSE maxPersisted
    /\ art' = IF buf # <<>> THEN [art EXCEPT ![doc] = @ \o buf] ELSE art
    /\ prev' = EndRecord("cancel")
    /\ ProcessGone
    /\ UNCHANGED <<pages, run, compressorVars>>

\* The process is killed (or the machine stops): nothing more is written; of
\* the unflushed writes none, or all but the last bytes, had reached the file.
Crash ==
    /\ pc # "off"
    /\ \E reached \in BOOLEAN :
         art' = IF buf # <<>> /\ reached THEN [art EXCEPT ![doc] = @ \o Partial(buf)]
                ELSE art
    /\ prev' = EndRecord("crash")
    /\ ProcessGone
    /\ UNCHANGED <<pages, disk, run, maxPersisted, faults, compressorVars>>

Next ==
    \/ Main \/ LoopEnd \/ Break \/ Exit
    \/ SkipCompleted \/ InitProgress \/ RasterizeFail \/ RasterizeOk
    \/ OpenOutput \/ OpenOutputFail \/ PageLoop \/ OcrAttempt
    \/ StopSave \/ WriteMarker \/ WriteBody \/ Flush \/ UpdateProgress \/ Delay
    \/ Close \/ MarkCompleted \/ ReturnTrue
    \/ SaveOpen \/ SaveOpenError \/ SaveWrite \/ SaveWriteError
    \/ Sigint \/ Crash

Spec == Init /\ [][Next]_vars

\* The steps of processes that are neither interrupted nor killed.
UninterruptedNext ==
    \/ Main \/ LoopEnd \/ Break \/ Exit
    \/ SkipCompleted \/ InitProgress \/ RasterizeFail \/ RasterizeOk
    \/ OpenOutput \/ OpenOutputFail \/ PageLoop \/ OcrAttempt
    \/ StopSave \/ WriteMarker \/ WriteBody \/ Flush \/ UpdateProgress \/ Delay
    \/ Close \/ MarkCompleted \/ ReturnTrue
    \/ SaveOpen \/ SaveOpenError \/ SaveWrite \/ SaveWriteError

\* Runs left to themselves: the program is sequential, every call it makes
\* (rasterization, the service, the file system, sleep) returns or raises, so a
\* step that can be taken is taken.
FairSpec == Init /\ [][UninterruptedNext]_vars /\ WF_vars(UninterruptedNext)

\* ----------------------------------------------- invocation after invocation
\* main() started again, any number of times (run stops counting at MaxRuns).
Restart ==
    /\ pc = "off"
    /\ run' = IF run < MaxRuns THEN run + 1 ELSE run
    /\ progress_data' = load_progress(disk)
    /\ loaded' = load_progress(disk)
    /\ hadSection' = [d \in Docs |-> SectionPages(art[d])]
    /\ pc' = "loop"
    /\ doc' = 1
    /\ UNCHANGED <<pages, disk, art, start_page, page_num, retry_count, result, buf,
                   save_ret, stopped, opened, ocrPages, firstReq, requests, transients,
                   outcome, raw, rasterized, wrote, lastSave, delays, maxPersisted,
                   faults, prev, compressorVars>>

\* This run has processed a page: some processed_pages is above what was loaded.
PageDoneThisRun ==
    \E d \in Docs : progress_data[d].processed_pages > loaded[d].processed_pages

\* ocr_with_gemini under a service whose stops are rate limits or exhausted
\* retries, and that lets every run after a stopped one process a page first.
OcrMakingProgress ==
    /\ OcrAttempt
    /\ (pc' = "got" /\ result'.should_stop) =>
          /\ outcome' \in {"rate_limit", "retries_exceeded"}
          /\ prev.kind = "halt" => PageDoneThisRun

\* The steps of runs without I/O errors, interruptions or kills, under such a
\* service.
ResumeNext ==
    \/ Restart \/ LoopEnd \/ Break \/ Exit
    \/ SkipCompleted \/ InitProgress \/ RasterizeOk
    \/ OpenOutput \/ PageLoop \/ OcrMakingProgress
    \/ StopSave \/ WriteMarker \/ WriteBody \/ Flush \/ UpdateProgress \/ Delay
    \/ Close \/ MarkCompleted \/ ReturnTrue
    \/ SaveOpen \/ SaveWrite

\* The program is started again and again, and each process runs to its end.
ResumeSpec == Init /\ [][ResumeNext]_vars /\ WF_vars(ResumeNext)

\* ------------------------------------------------------------ pdf_compressor
\* process_pdf_file's test for a file it leaves alone.
UnderLimit(size_bytes) == size_bytes <= MAX_SIZE_BYTES

\* create_backup's backup_path: the file's own name, or the name with the
\* timestamp ts when a backup of that name exists already.
BackupName(ts) == IF backups[0].exists THEN ts ELSE 0

\* Mutant: create_backup returns the path although the copy raised.
BackupResultAlways(path, copied) == path

\* create_backup's return value.
BackupResult(path, copied) == IF copied THEN path ELSE None

\* The document compressed once more.
Compressed(f, size) == File(f.data + 1, size)

\* process_pdf_file is called on a file within the limit: it returns True.
SkipUnderLimit ==
    /\ step \in {"idle", "returned"}
    /\ calls < MaxCalls
    /\ UnderLimit(pdf.size)
    /\ calls' = calls + 1
    /\ original' = pdf
    /\ backup_path' = None
    /\ temp_size' = 0
    /\ returned' = TRUE
    /\ step' = "returned"
    /\ UNCHANGED <<pdf, backups, temp, now, ocrVars>>

\* process_pdf_file is called on a file over the limit.
OverLimit ==
    /\ step \in {"idle", "returned"}
    /\ calls < MaxCalls
    /\ ~UnderLimit(pdf.size)
    /\ calls' = calls + 1
    /\ original' = pdf
    /\ backup_path' = None
    /\ temp_size' = 0
    /\ step' = "backup"
    /\ UNCHANGED <<pdf, backups, temp, returned, now, ocrVars>>

\* create_backup and process_pdf_file's test of its result; left is the file
\* at the backup path afterwards.
BackupStep(ts, copied, left) ==
    /\ step = "backup"
    /\ now' = ts
    /\ backups' = [backups EXCEPT ![BackupName(ts)] = left]
    /\ backup_path' = BackupResult(BackupName(ts), copied)
    /\ IF backup_path' = None
         THEN /\ returned' = FALSE
              /\ step' = "returned"
         ELSE /\ returned' = returned
              /\ step' = "strategy1"
    /\ UNCHANGED <<pdf, temp, temp_size, original, calls, ocrVars>>

\* create_backup: the copy is made.
CreateBackup ==
    \E ts \in now..MaxStamps : BackupStep(ts, TRUE, pdf)

\* create_backup: makedirs or copy2 raises, before or after the destination
\* was opened for writing.
CreateBackupFail ==
    \E ts \in now..MaxStamps :
        \E left \in {backups[BackupName(ts)], Incomplete} : BackupStep(ts, FALSE, left)

\* Where compress_pdf_gentle goes after a save of the temp file.
AfterSave(size, more) == IF size > TARGET_SIZE_BYTES THEN more ELSE "move"

\* compress_pdf_gentle, strategy 1: save with garbage collection and deflate.
Strategy1 ==
    /\ step = "strategy1"
    /\ \E size \in Sizes :
          /\ temp' = Compressed(pdf, size)
          /\ temp_size' = size
          /\ step' = AfterSave(size, "strategy2")
    /\ UNCHANGED <<pdf, backups, backup_path, returned, original, now, calls, ocrVars>>

\* compress_pdf_gentle, strategy 2: recompress the images and save again.
Strategy2 ==
    /\ step = "strategy2"
    /\ \E size \in Sizes :
          /\ temp' = Compressed(pdf, size)
          /\ temp_size' = size
          /\ step' = AfterSave(size, "strategy3")
    /\ UNCHANGED <<pdf, backups, backup_path, returned, original, now, calls, ocrVars>>

\* compress_pdf_gentle, strategy 3: rebuild the document from page images.
Strategy3 ==
    /\ step = "strategy3"
    /\ \E size \in Sizes :
          /\ temp' = Compressed(pdf, size)
          /\ temp_size' = size
          /\ step' = "move"
    /\ UNCHANGED <<pdf, backups, backup_path, returned, original, now, calls, ocrVars>>

\* compress_pdf_gentle moves the temp file over the PDF and process_pdf_file
\* returns True.
Move ==
    /\ step = "move"
    /\ pdf' = temp
    /\ temp' = NoSuchFile
    /\ returned' = TRUE
    /\ step' = "returned"
    /\ UNCHANGED <<backups, backup_path, temp_size, original, now, calls, ocrVars>>

\* compress_pdf_gentle: an open, a save or the move raises; the handler removes
\* the temp file, unless the removal raises too.
CompressFail ==
    /\ step \in {"strategy1", "strategy2", "strategy3", "move"}
    /\ temp' \in {NoSuchFile, temp, Incomplete}
    /\ step' = "restore"
    /\ UNCHANGED <<pdf, backups, backup_path, temp_size, returned, original, now,
                   calls, ocrVars>>

\* process_pdf_file copies the backup back and returns False.
Restore ==
    /\ step = "restore"
    /\ backup_path # None
    /\ pdf' = backups[backup_path]
    /\ returned' = FALSE
    /\ step' = "returned"
    /\ UNCHANGED <<backups, temp, backup_path, temp_size, original, now, calls,
                   ocrVars>>

\* The copy back raises, before or after the PDF was opened for writing.
RestoreFail ==
    /\ step = "restore"
    /\ pdf' \in {pdf, Incomplete}
    /\ returned' = FALSE
    /\ step' = "returned"
    /\ UNCHANGED <<backups, temp, backup_path, temp_size, original, now, calls,
                   ocrVars>>

\* A PDF in the folder, with or without a backup from an earlier compression.
CompressorInit ==
    /\ pages = [d \in Docs |-> 1]
    /\ OcrNotStarted
    /\ step = "idle"
    /\ \E size \in Sizes, had \in BOOLEAN :
          /\ pdf = File(IF had THEN 2 ELSE 1, size)
          /\ backups = [n \in BackupNames |->
                           IF had /\ n = 0 THEN File(1, MAX_SIZE_BYTES + 1) ELSE NoSuchFile]
    /\ temp \in {NoSuchFile, Incomplete}
    /\ backup_path = None
    /\ temp_size = 0
    /\ returned = TRUE
    /\ original = pdf
    /\ now = 1
    /\ calls = 0

CompressorNext ==
    \/ SkipUnderLimit \/ OverLimit
    \/ CreateBackup \/ CreateBackupFail
    \/ Strategy1 \/ Strategy2 \/ Strategy3 \/ Move \/ CompressFail
    \/ Restore \/ RestoreFail

CompressorSpec == CompressorInit /\ [][CompressorNext]_vars

\* ================================================================ claims
\* What a reader of the snapshot gets for document d.
Readable(d) == load_progress(disk)[d]

\* The sections of an artifact, partly written ones included.
Sections(a) == SelectSeq(a, LAMBDA e : e.page > 0)

\* The artifact holds whole sections for pages 1..n, in order, and nothing else.
ExactlySections(a, n) ==
    /\ Len(Sections(a)) = n
    /\ \A i \in 1..n : Sections(a)[i].page = i /\ Sections(a)[i].whole

\* No two whole sections of the artifact are for the same page.
NoDuplicateSection(a) ==
    \A i, j \in 1..Len(a) :
        (i # j /\ a[i].page > 0 /\ a[i].whole /\ a[j].whole) => a[i].page # a[j].page

\* ---------------------------------------------------------------- C1
\* C1: in every reachable state, of first and of resumed runs, every progress
\* record, in memory and in the persisted snapshot, has
\* 0 <= processed_pages <= total_pages.
C1_ProcessedWithinTotal ==
    \A d \in Docs :
        /\ progress_data[d].present =>
              /\ 0 <= progress_data[d].processed_pages
              /\ progress_data[d].processed_pages <= progress_data[d].total_pages
        /\ (disk.st = "ok" /\ disk.data[d].present) =>
              /\ 0 <= disk.data[d].processed_pages
              /\ disk.data[d].processed_pages <= disk.data[d].total_pages

\* A resumed run took a document from a page in the middle to its last page,
\* and the snapshot holds it.
C1_Witness ==
    /\ run = 2
    /\ disk.st = "ok"
    /\ \E d \in Docs :
         /\ loaded[d].processed_pages >= 1
         /\ loaded[d].processed_pages < pages[d]
         /\ disk.data[d].processed_pages = pages[d]

\* ---------------------------------------------------------------- C2
\* C2: the processed_pages a run loads for a document is never below a value
\* an earlier run persisted for it.
C2_LoadedNeverBelowPersisted ==
    [][(pc = "off" /\ pc' = "loop") =>
          \A d \in Docs : loaded'[d].processed_pages >= maxPersisted[d]]_vars

\* ---------------------------------------------------------------- C3
\* C3: in a run that loaded processed_pages = k > 0 for a document, the first
\* page sent to OCR is k + 1, no section of a page in 1..k is written, and the
\* artifact never holds two sections for the same page.
C3_IdempotentResume ==
    \A d \in Docs :
        loaded[d].processed_pages > 0 =>
            /\ firstReq[d] \in {0, loaded[d].processed_pages + 1}
            /\ wrote[d] \cap (1..loaded[d].processed_pages) = {}
            /\ NoDuplicateSection(art[d])

\* ---------------------------------------------------------------- C4
\* C4: whenever a progress record, in memory or persisted, has completed = true,
\* the document's artifact holds exactly total_pages whole sections, for pages
\* 1..total_pages in order.
C4_CompletedHasExactSections ==
    \A d \in Docs :
        /\ progress_data[d].completed => ExactlySections(art[d], progress_data[d].total_pages)
        /\ Readable(d).completed => ExactlySections(art[d], Readable(d).total_pages)

\* ---------------------------------------------------------------- C5
\* C5: a document loaded with completed = true is not reprocessed in that run:
\* it is not rasterized, no page of it is sent to OCR, its artifact is neither
\* opened nor written, its progress record stays as loaded, and the loop goes
\* on with the next document.
C5_CompletedNotReprocessed ==
    [][\A d \in Docs :
          (loaded[d].present /\ loaded[d].completed) =>
              /\ art'[d] = art[d]
              /\ pc' # "off" =>
                    /\ progress_data'[d] = loaded[d]
                    /\ d \notin rasterized'
                    /\ d \notin opened'
                    /\ ocrPages'[d] = {}
                    /\ wrote'[d] = {}
                    /\ doc = d => (doc' = d + 1 /\ pc' = "loop")]_vars

\* A run loaded a completed document and its loop has gone past it.
C5_Witness ==
    /\ pc = "loop"
    /\ \E d \in Docs : loaded[d].present /\ loaded[d].completed /\ doc > d

\* ---------------------------------------------------------------- C6
\* C6: a reader never finds the snapshot torn: whenever a process can start
\* (and load), the file is absent or holds a complete snapshot.
C6_SnapshotNeverTorn == pc = "off" => disk.st # "torn"

\* ---------------------------------------------------------------- C7
\* The run has stopped on a rate limit answer for page page_num + 1.
RateLimitHalt == pc \in {"halted", "summary"} /\ outcome = "rate_limit"

\* C7: a rate limit answer for page p stops the run; the run halts
\* with processed_pages = p - 1 persisted, the document not completed, no
\* section written for page p; the next run's first OCR of the document is p.
C7_RateLimitHalt ==
    /\ (pc = "got" /\ outcome = "rate_limit") => result.should_stop
    /\ RateLimitHalt =>
          /\ Readable(doc).processed_pages = page_num
          /\ ~Readable(doc).completed
          /\ (page_num + 1) \notin wrote[doc]
    /\ (prev.kind = "halt" /\ prev.outcome = "rate_limit" /\ pc # "off") =>
          firstReq[prev.doc] \in {0, prev.page}

\* ---------------------------------------------------------------- C8
\* C8: a kill after the progress of page k was persisted and before the OCR
\* call of page k + 1 leaves the snapshot at processed_pages = k, and the next
\* run sends to OCR, and writes sections for, pages k + 1..total_pages only.
C8_CrashBetweenPages ==
    prev.kind = "crash_between" =>
        /\ pc = "off" =>
              /\ disk.st = "ok"
              /\ disk.data[prev.doc].processed_pages = prev.page
        /\ ocrPages[prev.doc] \subseteq (prev.page + 1)..pages[prev.doc]
        /\ wrote[prev.doc] \subseteq (prev.page + 1)..pages[prev.doc]

\* After such a kill at k = 1 the next run has written the section of page 2.
C8_Witness ==
    /\ prev.kind = "crash_between"
    /\ prev.page = 1
    /\ pc = "update"
    /\ wrote[prev.doc] = {2}

\* ---------------------------------------------------------------- C9
\* C9: after an interruption at any point of a run, the next run sends to OCR
\* at most one page per document whose section the artifact already held.
C9_ReplayAtMostOnePage ==
    (pc # "off" /\ prev.kind \in {"cancel", "crash", "crash_between"}) =>
        \A d \in Docs : Cardinality(ocrPages[d] \cap hadSection[d]) <= 1

\* --------------------------------------------------------------- C10
\* ocr_with_gemini returned a non-blank text after exactly MAX_RETRIES - 1
\* answers 503/500.
C10_Case(tr, oc, res) == tr = MAX_RETRIES - 1 /\ oc = "text" /\ res.ocr_text # <<>>

\* C10: after exactly MAX_RETRIES - 1 transient failures and then a text, the
\* call returns (text, True, False) having made MAX_RETRIES - 1 retries and
\* MAX_RETRIES requests; the run does not stop; the page's section holds that
\* text; processed_pages advances by one.
C10_SuccessOnLastRetry ==
    [][/\ (pc' = "got" /\ C10_Case(transients', outcome', result')) =>
              /\ result'.ocr_text = Strip(raw')
              /\ result'.success /\ ~result'.should_stop
              /\ retry_count' = MAX_RETRIES - 1
              /\ requests' = MAX_RETRIES
       /\ (pc = "got" /\ C10_Case(transients, outcome, result) /\ pc' # "off") =>
              /\ pc' = "body"
              /\ result' = result
       /\ (pc = "body" /\ result.success /\ result.ocr_text # <<>> /\ pc' # "off") =>
              /\ pc' = "flush"
              /\ buf'[Len(buf')] = WholeSection(page_num + 1, result.ocr_text)
       /\ (pc = "flush" /\ pc' # "off") =>
              /\ pc' = "update"
              /\ art'[doc] = art[doc] \o buf
       /\ (pc = "update" /\ pc' # "off") =>
              /\ progress_data'[doc].processed_pages = progress_data[doc].processed_pages + 1
              /\ progress_data'[doc].processed_pages = page_num + 1
              /\ save_ret' = "delay"]_vars

\* The text came back on the last-but-one retry of the budget.
C10_Witness ==
    /\ pc = "got"
    /\ C10_Case(transients, outcome, result)
    /\ requests = MAX_RETRIES

\* --------------------------------------------------------------- C11
\* ocr_with_gemini returned without text and without a stop: an empty or blank
\* answer, an unclassified error, or an image that could not be encoded.
EmptyResult(oc, res) ==
    \/ oc \in {"empty", "other_error", "encode_fail"}
    \/ oc = "text" /\ res.ocr_text = <<>>

\* What process_pdf does with a page whose result carries no text: the
\* placeholder section is written and flushed, processed_pages advances by one,
\* the run is not stopped and goes on with the next page or document.
EmptyResultHandled ==
    /\ (pc = "got" /\ EmptyResult(outcome, result) /\ pc' # "off") =>
          /\ pc' = "body"
          /\ result' = result
          /\ wrote'[doc] = wrote[doc] \cup {page_num + 1}
    /\ (pc = "body" /\ ~(result.success /\ result.ocr_text # <<>>) /\ pc' # "off") =>
          /\ pc' = "flush"
          /\ buf'[Len(buf')] = WholeSection(page_num + 1, Placeholder)
    /\ (pc = "flush" /\ pc' # "off") =>
          /\ pc' = "update"
          /\ art'[doc] = art[doc] \o buf
    /\ (pc = "update" /\ pc' # "off") =>
          /\ progress_data'[doc].processed_pages = progress_data[doc].processed_pages + 1
          /\ save_ret' = "delay"
    /\ (pc \in {"save_open", "save_write"} /\ save_ret = "delay" /\ pc' # "off") =>
          pc' \in {"save_write", "delay"}
    /\ (pc = "delay" /\ pc' # "off") => (pc' = "page" /\ page_num' = page_num + 1)
    /\ (pc = "page" /\ pc' # "off") => pc' \in {"ocr", "close"}

\* C11 as stated: an EmptyResult for a page comes from the one and only call
\* of ocr_with_gemini for the page (no retry was made), does not stop the run, and the page gets
\* the placeholder section and counts as processed.
C11_EmptyResultOneRequest ==
    [][/\ (pc' = "got" /\ EmptyResult(outcome', result')) =>
              /\ ~result'.should_stop
              /\ retry_count' = 0
       /\ EmptyResultHandled]_vars

\* C11 (amended): the EmptyResult itself is not retried and does not stop the
\* run: the requests made for the page are the one it answered (none when the
\* image could not be encoded) and one per 503/500 answer that came before it;
\* the page gets the placeholder section and counts as processed.
C11_EmptyResultNotRetried ==
    [][/\ (pc' = "got" /\ EmptyResult(outcome', result')) =>
              /\ ~result'.should_stop
              /\ requests' = transients' + (IF outcome' = "encode_fail" THEN 0 ELSE 1)
              /\ retry_count' = transients'
              /\ (pc = "ocr" /\ retry_count' = retry_count)
       /\ EmptyResultHandled]_vars

\* A page without text has its placeholder section in the artifact and is
\* counted as processed; the run goes on.
C11_Witness ==
    /\ pc = "delay"
    /\ art[doc] # <<>>
    /\ art[doc][Len(art[doc])] = WholeSection(page_num + 1, Placeholder)
    /\ progress_data[doc].processed_pages = page_num + 1

\* --------------------------------------------------------------- C12
\* ocr_with_gemini returned should_stop and the run has not ended yet: the
\* result is in, or save_progress() runs before return False, or process_pdf
\* has returned False, or main has left its loop by break.
RunStopped ==
    \/ pc = "got" /\ result.should_stop
    \/ pc \in {"save_open", "save_write"} /\ save_ret = "halted"
    \/ pc = "halted"
    \/ pc = "summary" /\ stopped

\* C12: once a page has ended with a stop (rate limit, retries exhausted,
\* invalid key), no later step of the run calls OCR, rasterizes or opens a
\* document, writes to an artifact or changes a progress record in memory, for
\* this or a later document; the run only saves and exits.
C12_RunStopHaltsBatch ==
    [][RunStopped =>
          /\ art' = art
          /\ buf = <<>> /\ buf' = <<>>
          /\ pc' # "off" =>
                /\ RunStopped'
                /\ doc' = doc
                /\ progress_data' = progress_data
                /\ ocrPages' = ocrPages
                /\ wrote' = wrote
                /\ rasterized' = rasterized
                /\ opened' = opened
          /\ disk'.st = "ok" => (disk' = disk \/ disk'.data = progress_data)]_vars

\* The run was stopped at the first document; main is past its loop and the
\* second document was never taken up.
C12_Witness ==
    /\ pc = "summary" /\ stopped
    /\ doc = 1
    /\ 2 \notin rasterized
    /\ ~progress_data[2].present

\* --------------------------------------------------------------- C13
\* C13: a run stopped by an invalid key is reported as needing an external
\* fix, a run stopped by a rate limit or by exhausted retries as resumable.
C13_HaltStatusDistinguished ==
    (pc = "summary" /\ stopped) =>
        /\ outcome = "invalid_key" => HaltReport(~stopped) = "needs_external_fix"
        /\ outcome \in {"rate_limit", "retries_exceeded"} => HaltReport(~stopped) = "resumable"

\* --------------------------------------------------------------- C14
\* C14: when a run that was stopped (rate limit, retries exhausted, invalid
\* key) is about to exit, the snapshot on disk holds for every document a
\* processed_pages equal to the number of pages with a whole section in its
\* artifact, whether or not a save_progress() failed.
C14_HaltSnapshotMatchesArtifact ==
    (pc = "summary" /\ stopped) =>
        \A d \in Docs : Readable(d).processed_pages = Cardinality(SectionPages(art[d]))

\* --------------------------------------------------------------- C15
\* No section of the artifact is partly written.
NoPartialSection(a) == \A i \in 1..Len(a) : a[i].whole

\* C15: after a run was cancelled by SIGINT, at whatever point, the snapshot
\* on disk is complete, holds for every document a processed_pages equal to the
\* number of pages with a whole section in its artifact, and no artifact holds
\* a partly written section.
C15_CancelLosesNothing ==
    (pc = "off" /\ prev.kind = "cancel") =>
        /\ disk.st = "ok"
        /\ \A d \in Docs :
              /\ Readable(d).processed_pages = Cardinality(SectionPages(art[d]))
              /\ NoPartialSection(art[d])

\* --------------------------------------------------------------- C16
\* The step is the exit of a process cancelled by SIGINT.
CancelExit == pc # "off" /\ pc' = "off" /\ prev'.kind = "cancel"

\* ocr_with_gemini is running for the current page: it has sent a request, got
\* 503/500 and is to send the next one.
OcrInFlight == pc = "ocr" /\ retry_count > 0

\* The page marker is written, the text and the separator are not.
SectionBeingWritten == pc = "body"

\* save_progress() has opened (and truncated) the file and not yet dumped.
SaveInProgress == pc = "save_write"

\* C16: a process never exits on SIGINT while an OCR call is running, while a
\* page section is being written or while a save is in progress.
C16_CancelOnlyAtCheckpoint ==
    [][CancelExit => ~(OcrInFlight \/ SectionBeingWritten \/ SaveInProgress)]_vars

\* --------------------------------------------------------------- C17
\* The run has stopped because the 503/500 answers for page page_num + 1 went
\* past the retry budget.
RetriesExceededHalt == pc \in {"halted", "summary"} /\ outcome = "retries_exceeded"

\* C17: exhausted retries on page p stop the run as a rate limit does: the
\* call returns ('', False, True); the run halts with processed_pages = p - 1
\* persisted, the document not completed, no section written for page p and no
\* later document taken up; the next run's first OCR of the document is p.
C17_RetriesExceededHalt ==
    /\ (pc = "got" /\ outcome = "retries_exceeded") =>
          /\ result = Result(<<>>, FALSE, TRUE)
          /\ transients = MAX_RETRIES + 1
    /\ RetriesExceededHalt =>
          /\ progress_data[doc].processed_pages = page_num
          /\ Readable(doc).processed_pages = page_num
          /\ ~Readable(doc).completed
          /\ (page_num + 1) \notin wrote[doc]
          /\ \A d \in Docs : d > doc => d \notin rasterized
    /\ (prev.kind = "halt" /\ prev.outcome = "retries_exceeded" /\ pc # "off") =>
          firstReq[prev.doc] \in {0, prev.page}

\* --------------------------------------------------------------- C18
\* The step is a save_progress() that fails (open or json.dump raises) in a
\* process that goes on running.
SaveFailed == pc \in {"save_open", "save_write"} /\ faults' = faults + 1 /\ pc' # "off"

\* The step is a save_progress() that completes.
SaveSucceeded == pc = "save_write" /\ faults' = faults /\ pc' # "off"

\* C18: a failing save_progress() neither crashes nor stops the run: it
\* returns to its caller with progress_data, the artifacts and the position in
\* the batch unchanged, so that the page loop goes on; and a save that
\* completes writes the whole of the current progress_data.
C18_SaveFailureContinues ==
    [][/\ SaveFailed =>
              /\ pc' = save_ret
              /\ pc' \in {"delay", "next", "skip", "halted"}
              /\ save_ret = "delay" => ~stopped'
              /\ progress_data' = progress_data
              /\ art' = art
              /\ <<doc', start_page', page_num'>> = <<doc, start_page, page_num>>
       /\ SaveSucceeded =>
              /\ disk' = CompleteFile(progress_data)
              /\ progress_data' = progress_data
              /\ pc' = save_ret]_vars

\* In a first run the save after a page failed, the run went on, and a later
\* save has written both pages of the document.
C18_Witness ==
    /\ run = 1 /\ faults = 1
    /\ doc = 1 /\ opened = {1}
    /\ pc = "delay"
    /\ lastSave = "ok"
    /\ disk = CompleteFile(progress_data)
    /\ progress_data[1].processed_pages = 2

\* --------------------------------------------------------------- C19
\* The step is process_pdf returning because pdf_to_images gave no images.
RasterizeFailed == pc = "rasterize" /\ pc' \notin {"off", "open"}

\* Documents this run has given up without opening their artifact.
GivenUp == {d \in rasterized : d \notin opened /\ d < doc}

\* C19: a document that cannot be rasterized is skipped, and only it: no OCR
\* call and no section for it, its processed_pages as loaded, not completed,
\* its artifact untouched, no stop; main goes on with the next document.
C19_RasterizeFailureSkipsDocument ==
    [][/\ RasterizeFailed =>
              /\ pc' = "loop" /\ doc' = doc + 1
              /\ ~stopped'
              /\ progress_data'[doc].processed_pages = loaded[doc].processed_pages
              /\ ~progress_data'[doc].completed
              /\ art' = art
              /\ ocrPages'[doc] = {} /\ wrote'[doc] = {}
       /\ pc # "off" =>
             \A d \in GivenUp :
                 /\ ocrPages[d] = {} /\ wrote[d] = {}
                 /\ progress_data[d].processed_pages = loaded[d].processed_pages
                 /\ ~progress_data[d].completed
       /\ (pc = "loop" /\ doc \in Docs /\ pc' # "off") =>
             (pc' = "rasterize" /\ doc' = doc) \/ (pc' = "loop" /\ doc' = doc + 1)]_vars

\* The first document could not be rasterized and the run is at the OCR of a
\* page of the second.
C19_Witness ==
    /\ doc = 2 /\ pc = "ocr"
    /\ 1 \in rasterized /\ 1 \notin opened
    /\ progress_data[1].present /\ progress_data[1].total_pages = 0

ArtifactOpen ==
    \/ pc \in {"open", "page", "ocr", "got", "body", "flush", "update", "delay", "close"}
    \/ pc \in {"save_open", "save_write"} /\ save_ret \in {"delay", "halted"}

\* The artifact ends with the whole section of page n.
EndsWithPage(a, n) == a # <<>> /\ a[Len(a)] \in {WholeSection(n, t) : t \in {a[Len(a)].text}}

\* C21: a record with completed = true, in memory or in the snapshot, has
\* processed_pages = total_pages, and the document's artifact is closed and
\* ends with the section of its last page; in a running process completed is
\* set only by the step after the with block, with no page left and no stop.
C21_CompletedMeansAllPagesAndClosed ==
    [][/\ \A d \in Docs :
             /\ progress_data[d].completed =>
                   /\ progress_data[d].processed_pages = progress_data[d].total_pages
                   /\ progress_data[d].total_pages = pages[d]
                   /\ EndsWithPage(art[d], pages[d])
                   /\ d = doc => (~ArtifactOpen /\ buf = <<>>)
             /\ Readable(d).completed =>
                   /\ Readable(d).processed_pages = Readable(d).total_pages
                   /\ EndsWithPage(art[d], pages[d])
             /\ (progress_data'[d].completed /\ ~progress_data[d].completed /\ pc # "off") =>
                   /\ pc = "mark" /\ d = doc
                   /\ progress_data[d].processed_pages = pages[d]
                   /\ ~stopped /\ buf = <<>>
       /\ RunStopped => ~progress_data[doc].completed]_vars

\* A two-page document has just been marked completed and saved.
C21_Witness ==
    /\ pc = "next"
    /\ pages[doc] = 2
    /\ progress_data[doc].completed
    /\ Readable(doc).completed

\* --------------------------------------------------------------- C22
\* The service refused the key or the permission of the caller.
CredentialFailure(resp) ==
    /\ resp.kind = "error"
    /\ resp.err \cap {"API_KEY_INVALID", "403", "PERMISSION_DENIED"} # {}

\* C22: whenever ocr_with_gemini is called, an answer that refuses the key or
\* the permission takes the invalid-key branch and returns should_stop: it is
\* never returned as a result without text that gets the placeholder section.
C22_CredentialFailureStops ==
    pc = "ocr" =>
        \A resp \in Responses :
            CredentialFailure(resp) =>
                /\ Branch(resp, retry_count) = "invalid_key"
                /\ Returned(resp, Branch(resp, retry_count)).should_stop
                /\ ~EmptyResult(Branch(resp, retry_count),
                                Returned(resp, Branch(resp, retry_count)))

\* --------------------------------------------------------------- C23
\* C23: within a document the delay of DELAY_BETWEEN_REQUESTS is taken once
\* after every processed page but the last: the first OCR call for a page
\* comes after exactly one delay when a page was processed before it in this
\* run of the loop (and after none for the page the loop starts at), and the
\* loop is left, after the last page, without a delay.
C23_DelayBetweenPages ==
    [][/\ (pc = "ocr" /\ retry_count = 0 /\ pc' # "off") =>
              delays = (IF page_num > start_page THEN 1 ELSE 0)
       /\ (pc = "delay" /\ pc' # "off") =>
              /\ delays = 0
              /\ delays' = (IF page_num + 1 < progress_data[doc].total_pages THEN 1 ELSE 0)
       /\ (pc = "page" /\ page_num = pages[doc]) => delays = 0
       /\ pc \in {"close", "mark", "next"} => delays = 0]_vars

\* The second page of a document is about to be sent, one delay after the first.
C23_Witness ==
    /\ pc = "ocr" /\ retry_count = 0
    /\ page_num = 1 /\ start_page = 0
    /\ delays = 1

\* --------------------------------------------------------------- C24
\* C24: the steps of ocr_with_gemini for a page, from its first call to its
\* return, retries and waits included, leave progress_data, the snapshot on
\* disk and the artifacts (written or buffered) as they are; the call ends by
\* returning its result to process_pdf.
C24_OcrLeavesStateAlone ==
    [][(pc = "ocr" /\ pc' # "off") =>
          /\ pc' \in {"ocr", "got"}
          /\ progress_data' = progress_data
          /\ disk' = disk
          /\ art' = art
          /\ buf' = buf /\ buf = <<>>
          /\ wrote' = wrote
          /\ maxPersisted' = maxPersisted]_vars

\* ocr_with_gemini is in its third attempt for the second page of a document
\* whose first page is processed and saved.
C24_Witness ==
    /\ pc = "ocr" /\ retry_count = 2
    /\ page_num = 1
    /\ progress_data[doc].processed_pages = 1
    /\ disk = CompleteFile(progress_data)

\* --------------------------------------------------------------- C25
\* C25: every run ends, whatever the service answers: no page gets more than
\* MAX_RETRIES + 1 requests in a run, and a page answered with 503/500 every
\* time stops the run after exactly MAX_RETRIES retries.
C25_RunsTerminate ==
    /\ [](/\ requests <= MAX_RETRIES + 1
          /\ retry_count <= MAX_RETRIES
          /\ (pc = "got" /\ outcome = "retries_exceeded") =>
                /\ retry_count = MAX_RETRIES
                /\ requests = MAX_RETRIES + 1
                /\ transients = MAX_RETRIES + 1
                /\ result.should_stop)
    /\ (pc # "off") ~> (pc = "off")
    /\ (pc = "got" /\ outcome = "retries_exceeded") ~> (pc = "summary" /\ stopped)

\* The service answered 503/500 to every request for the first page of a first
\* run; the run has stopped.
C25_Witness ==
    /\ run = 1 /\ doc = 1 /\ page_num = 0
    /\ pc = "halted"
    /\ outcome = "retries_exceeded"

\* --------------------------------------------------------------- C26
\* Every document is marked completed in the snapshot on disk.
AllCompleted == \A d \in Docs : Readable(d).completed

\* C26: when rasterizations and saves succeed and every run stopped by a rate
\* limit or by exhausted retries is followed by a run that processes at least
\* one more page, every document is eventually and for good marked completed,
\* and the runs that come after that make no OCR call.
C26_ResumableHaltsMakeProgress ==
    /\ <>[]AllCompleted
    /\ []((pc # "off" /\ \A d \in Docs : loaded[d].completed) =>
              /\ \A d \in Docs : ocrPages[d] = {} /\ d \notin rasterized
              /\ requests = 0
              /\ pc \in {"loop", "summary"})
    /\ []<>(pc = "summary" /\ ~stopped /\ \A d \in Docs : loaded[d].completed)

\* A run that followed a stopped one has completed the last document.
C26_Witness ==
    /\ prev.kind = "halt"
    /\ pc = "summary" /\ ~stopped
    /\ AllCompleted
    /\ \E d \in Docs : ~loaded[d].completed /\ loaded[d].processed_pages > 0

\* --------------------------------------------------------------- C27
\* The content the PDF had when process_pdf_file was called is at backup_path.
BackedUp == backup_path # None /\ backups[backup_path] = original

\* C27: process_pdf_file never loses the original content: a file within
\* MAX_SIZE_BYTES is not written, nor is anything else; a larger file is
\* compressed only once its backup copy exists; and at every step and after
\* every return the original content is at the backup path or still at the
\* PDF's own path.
C27_OriginalNeverLost ==
    /\ [][UnderLimit(pdf.size) /\ step \in {"idle", "returned"} =>
              /\ pdf' = pdf /\ backups' = backups /\ temp' = temp
              /\ step' = "returned" /\ returned']_vars
    /\ [](step \in {"strategy1", "strategy2", "strategy3", "move"} =>
              BackedUp /\ pdf = original)
    /\ [](step = "restore" => BackedUp)
    /\ [](step # "idle" => (BackedUp \/ pdf = original))
    /\ [](step = "returned" =>
              /\ (pdf # original) => ~UnderLimit(original.size)
              /\ (backup_path = None) => pdf = original)

\* A second compression has replaced the PDF, and its original is in the
\* backup with the timestamp in its name.
C27_Witness ==
    /\ step = "returned" /\ returned
    /\ calls = 2
    /\ pdf # original
    /\ backup_path \in Stamps
    /\ BackedUp

====
